---- MODULE Spec2Model ----
(***************************************************************************)
(* Model of src/dataset_generator.py: the InventoryManager (stock ledger   *)
(* guarded by an RLock) and the session / transaction generation loop.     *)
(* Money is held in integer cents.                                         *)
(***************************************************************************)
EXTENDS Integers, Sequences, FiniteSets, TLC

(***************************************************************************)
(* Bounds of the model.                                                    *)
(***************************************************************************)
NumProducts == 2
\* the units of stock the catalog holds at the start, over all products
MaxStock == 2
\* the stock of one product at the start of a run of a single session
MaxSessionStock == 4
NumThreads == 2
\* the calls of update_stock the threads make, together
MaxCalls == 2
\* the largest quantity a thread asks for
MaxQty == 2
NumUsers == 1
\* the largest targets NUM_SESSIONS and NUM_TRANSACTIONS
MaxSessions == 2
MaxTransactions == 2
\* the offsets 1..MaxOffsetLow and the largest one are drawn for the timeline
MaxOffsetLow == 2
\* the same for the runs that build timelines only
MaxTimelineLow == 4
\* session durations MinDuration..MinDuration + DurationSpread and MaxDuration
DurationSpread == 1
\* the catalog price changes of the runs where base prices move
MaxPriceChanges == 1
\* the producers that build sessions and linked transactions side by side
NumProducers == 2
\* the cart additions of one such producer
MaxProducerAdds == 2
\* the longest page history and the largest position given to a lone call of
\* determine_page_type
MaxHistory == 2
\* the offsets 1..MaxPagesLow and the largest one are drawn for the timeline of
\* the runs that follow page sequences
MaxPagesLow == 4
MaxPosition == 2

(***************************************************************************)
(* Constants of the program.                                               *)
(***************************************************************************)
\* session_duration = random.randint(30, 3600)
MinDuration == 30
MaxDuration == 3600
\* n_views = random.randint(4, 12)
MinViews == 4
MaxViews == 12
\* for _ in range(10): the draws of get_page_content
ContentDraws == 10
\* max_possible = min(3, stock_left); qty = random.randint(1, 3)
MaxAdd == 3
\* random.sample(products, k=min(3, len(products)))
SampleSize == 3
\* random.choice([0.05, 0.1, 0.15, 0.2]), in percent
DiscountRates == {5, 10, 15, 20}
\* None, as a product id and as a session id
None == 0

Products == 1..NumProducts
\* a product id that is not a key of InventoryManager.products
UnknownProduct == NumProducts + 1
Threads == 1..NumThreads
Users == 1..NumUsers
\* "base_price" of the catalog entries, in cents (a price of two decimals): the
\* prices the model gives the products, in turn
Prices == <<505, 501, 510>>
\* the value of lock_owner while no thread holds the lock
NoOwner == NumThreads + 1

VARIABLES
    current_stock,   \* products[pid]["current_stock"], the ledger
    initial_stock,   \* the stock right after construction (history, never written)
    reserved,        \* per product: the units update_stock has taken (history)
    price_changes,   \* the number of catalog price changes so far (history)
    lock_owner,      \* InventoryManager.lock: NoOwner or the thread holding it
    t_pc,            \* per thread: position inside update_stock
    t_pid,           \* per thread: argument product_id
    t_qty,           \* per thread: argument quantity
    t_ret,           \* per thread: the value the call returns
    t_before,        \* per thread: the ledger as it was when the lock was taken
    t_done,          \* per thread: the number of calls that have returned
    n_calls,         \* the number of update_stock calls made so far (history)
    base_price,      \* products[pid]["base_price"], in cents
    is_active,       \* products[pid]["is_active"]
    NUM_SESSIONS,    \* the session target of the preset
    NUM_TRANSACTIONS,\* the transaction target of the preset
    sessions,        \* the emitted session records
    transactions,    \* the emitted transaction records
    session_counter,
    transaction_counter,
    iteration,
    pc,              \* the position of the generation loop
    user,            \* locals of the loop body
    session_id,
    session_duration,
    time_slots,
    page_views,
    cart_contents,   \* the dict, as its entries in insertion order
    converted,
    transaction_items,
    valid,
    products_in_txn,
    k,               \* index of the for loop over cart entries / sampled products
    subtotal,        \* locals of the pricing block, in cents
    discount,
    total,
    p_pc,            \* per producer: position in session and linked blocks
    p_cart,          \* per producer: its cart_contents
    p_adds,          \* per producer: the cart additions it has attempted
    p_items,         \* per producer: its transaction_items
    p_valid,         \* per producer: its valid
    p_k,             \* per producer: index of its for loop over cart entries
    d_pc,            \* a lone call of determine_page_type: "called" or "returned"
    d_position,      \* its argument position
    d_previous,      \* its argument previous_pages
    d_result         \* the page type it returned

ledgerVars == <<current_stock, initial_stock>>
historyVars == <<reserved, price_changes>>
threadVars == <<lock_owner, t_pc, t_pid, t_qty, t_ret, t_before, t_done, n_calls>>
catalogVars == <<base_price, is_active, NUM_SESSIONS, NUM_TRANSACTIONS>>
outputVars == <<sessions, transactions, session_counter, transaction_counter>>
sessionLocals == <<user, session_id, session_duration, time_slots, page_views,
                   cart_contents, converted>>
txnLocals == <<transaction_items, valid, products_in_txn, k>>
priceLocals == <<subtotal, discount, total>>
driverVars == <<catalogVars, outputVars, iteration, pc, sessionLocals, txnLocals,
                priceLocals>>
producerVars == <<p_pc, p_cart, p_adds, p_items, p_valid, p_k>>
callVars == <<d_pc, d_position, d_previous, d_result>>
vars == <<ledgerVars, historyVars, threadVars, driverVars, producerVars, callVars>>

(***************************************************************************)
(* InventoryManager                                                        *)
(***************************************************************************)

\* self.products.get(product_id) is not None
HasProduct(pid) == pid \in DOMAIN current_stock

\* p["current_stock"] >= quantity
CanReserveStrict(pid, qty) == HasProduct(pid) /\ current_stock[pid] > qty
CanReserveUnchecked(pid, qty) == HasProduct(pid)
CanReserve(pid, qty) == HasProduct(pid) /\ current_stock[pid] >= qty

\* p["current_stock"] -= quantity
DecrementedByOne(pid, qty) == [current_stock EXCEPT ![pid] = @ - 1]
Decremented(pid, qty) == [current_stock EXCEPT ![pid] = @ - qty]

\* `with self.lock`: an RLock is free for a thread when nobody else holds it
LockFreeBroken(t) == TRUE
LockFree(t) == lock_owner \in {NoOwner, t}

RECURSIVE SumOver(_, _)
\* the sum of f[x] over x in S
SumOver(f, S) ==
    IF S = {} THEN 0
    ELSE LET x == CHOOSE y \in S : TRUE IN f[x] + SumOver(f, S \ {x})

\* the catalog after construction: "current_stock" of every product, scaled
\* down to a few units (a product of stock 0 stands for one that is sold out)
InitLedger ==
    /\ current_stock \in {st \in [Products -> 0..MaxStock] :
                              SumOver(st, Products) <= MaxStock}
    /\ initial_stock = current_stock

Producers == 1..NumProducers

\* no producer has started
InitProducers ==
    /\ p_pc = [t \in Producers |-> "cart"]
    /\ p_cart = [t \in Producers |-> <<>>]
    /\ p_adds = [t \in Producers |-> 0]
    /\ p_items = [t \in Producers |-> <<>>]
    /\ p_valid = [t \in Producers |-> TRUE]
    /\ p_k = [t \in Producers |-> 1]

\* no lone call of determine_page_type is under way
InitNoCall ==
    /\ d_pc = "returned"
    /\ d_position = 0
    /\ d_previous = <<>>
    /\ d_result = "home"

InitThreads ==
    /\ InitProducers
    /\ InitNoCall
    /\ reserved = [p \in Products |-> 0]
    /\ price_changes = 0
    /\ lock_owner = NoOwner
    /\ t_pc = [t \in Threads |-> "idle"]
    /\ t_pid = [t \in Threads |-> UnknownProduct]
    /\ t_qty = [t \in Threads |-> 1]
    /\ t_ret = [t \in Threads |-> FALSE]
    /\ t_before = [t \in Threads |-> initial_stock]
    /\ t_done = [t \in Threads |-> 0]
    /\ n_calls = 0

\* a thread calls inventory.update_stock(product_id, quantity)
Call(t) ==
    /\ t_pc[t] = "idle"
    /\ n_calls < MaxCalls
    /\ n_calls' = n_calls + 1
    /\ \E pid \in Products \cup {UnknownProduct}, qty \in 1..MaxQty :
          /\ t_pid' = [t_pid EXCEPT ![t] = pid]
          /\ t_qty' = [t_qty EXCEPT ![t] = qty]
    /\ t_pc' = [t_pc EXCEPT ![t] = "acquire"]
    /\ UNCHANGED <<ledgerVars, historyVars, lock_owner, t_ret, t_before, t_done,
                   driverVars,
                   producerVars, callVars>>

\* with self.lock:
Acquire(t) ==
    /\ t_pc[t] = "acquire"
    /\ LockFree(t)
    /\ lock_owner' = t
    /\ t_before' = [t_before EXCEPT ![t] = current_stock]
    /\ t_pc' = [t_pc EXCEPT ![t] = "check"]
    /\ UNCHANGED <<ledgerVars, historyVars, t_pid, t_qty, t_ret, t_done, n_calls,
                   driverVars,
                   producerVars, callVars>>

\* p = self.products.get(product_id); if not p: return False;
\* if p["current_stock"] >= quantity: ... ; return False
Check(t) ==
    /\ t_pc[t] = "check"
    /\ IF CanReserve(t_pid[t], t_qty[t])
          THEN /\ t_pc' = [t_pc EXCEPT ![t] = "decrement"]
               /\ UNCHANGED t_ret
          ELSE /\ t_pc' = [t_pc EXCEPT ![t] = "release"]
               /\ t_ret' = [t_ret EXCEPT ![t] = FALSE]
    /\ UNCHANGED <<ledgerVars, historyVars, lock_owner, t_pid, t_qty, t_before,
                   t_done, n_calls, driverVars,
                   producerVars, callVars>>

\* p["current_stock"] -= quantity; return True
Decrement(t) ==
    /\ t_pc[t] = "decrement"
    /\ current_stock' = Decremented(t_pid[t], t_qty[t])
    /\ reserved' = [reserved EXCEPT ![t_pid[t]] = @ + t_qty[t]]
    /\ t_ret' = [t_ret EXCEPT ![t] = TRUE]
    /\ t_pc' = [t_pc EXCEPT ![t] = "release"]
    /\ UNCHANGED <<initial_stock, price_changes, lock_owner, t_pid, t_qty, t_before,
                   t_done, n_calls, driverVars,
                   producerVars, callVars>>

\* leaving the with block: the lock is released and the call returns
Release(t) ==
    /\ t_pc[t] = "release"
    /\ lock_owner' = IF lock_owner = t THEN NoOwner ELSE lock_owner
    /\ t_done' = [t_done EXCEPT ![t] = @ + 1]
    /\ t_before' = [t_before EXCEPT ![t] = initial_stock]
    /\ t_pc' = [t_pc EXCEPT ![t] = "idle"]
    /\ UNCHANGED <<ledgerVars, historyVars, t_pid, t_qty, t_ret, n_calls, driverVars,
                   producerVars, callVars>>


(***************************************************************************)
(* Helper functions of the generator                                       *)
(***************************************************************************)

\* the table with a direct step from a product page to the checkout
NextPagesShortcut(prev_page) ==
    CASE prev_page = "home" -> {"category_listing", "search", "product_detail"}
      [] prev_page = "category_listing" ->
            {"product_detail", "category_listing", "search", "home"}
      [] prev_page = "search" ->
            {"product_detail", "search", "category_listing", "home"}
      [] prev_page = "product_detail" ->
            {"product_detail", "cart", "checkout", "category_listing",
             "search", "home"}
      [] prev_page = "cart" ->
            {"checkout", "product_detail", "category_listing", "home"}
      [] prev_page = "checkout" -> {"confirmation", "cart", "home"}
      [] prev_page = "confirmation" ->
            {"home", "product_detail", "category_listing"}
      [] OTHER -> {"home"}

\* random.choices(...) after prev_page: every listed page has a positive weight
NextPages(prev_page) ==
    CASE prev_page = "home" -> {"category_listing", "search", "product_detail"}
      [] prev_page = "category_listing" ->
            {"product_detail", "category_listing", "search", "home"}
      [] prev_page = "search" ->
            {"product_detail", "search", "category_listing", "home"}
      [] prev_page = "product_detail" ->
            {"product_detail", "cart", "category_listing", "search", "home"}
      [] prev_page = "cart" ->
            {"checkout", "product_detail", "category_listing", "home"}
      [] prev_page = "checkout" -> {"confirmation", "cart", "home"}
      [] prev_page = "confirmation" ->
            {"home", "product_detail", "category_listing"}
      [] OTHER -> {"home"}

\* determine_page_type(position, previous_pages): the pages it can return
determine_page_type(position, previous_pages) ==
    IF position = 0
        THEN {"home", "search", "category_listing"}
        ELSE NextPages(IF previous_pages # <<>>
                          THEN previous_pages[Len(previous_pages)].page_type
                          ELSE "home")

\* product["is_active"] and product["current_stock"] > 0
Sellable(p) == is_active[p] /\ current_stock[p] > 0

\* the products get_page_content can return with `draws` draws of the for loop
\* left: a sellable draw returns at once, a draw of any other product goes on,
\* and after the loop any product is drawn
RECURSIVE ProductDraws(_)
ProductDraws(draws) ==
    IF draws = 0
        THEN Products
        ELSE {p \in Products : Sellable(p)}
             \cup (IF \E p \in Products : ~Sellable(p)
                      THEN ProductDraws(draws - 1) ELSE {})

\* get_page_content(page_type, products, categories): the product it can return
get_page_content(page_type) ==
    IF page_type = "product_detail" THEN ProductDraws(ContentDraws) ELSE {None}

Max(a, b) == IF a >= b THEN a ELSE b
Min(a, b) == IF a <= b THEN a ELSE b

RECURSIVE SortSet(_)
\* sorted(set(...)): the elements of S in increasing order
SortSet(S) ==
    IF S = {} THEN <<>>
    ELSE LET m == CHOOSE x \in S : \A y \in S : x <= y
         IN  <<m>> \o SortSet(S \ {m})

\* the offsets one draw random.randint(1, max(2, session_duration - 1)) is taken
\* from in the model: 1..low and the largest
OffsetPool(duration, low) ==
    {o \in 1..Max(2, duration - 1) : o <= low \/ o = Max(2, duration - 1)}

\* set([random.randint(...) for _ in range(n_views)]) with n_views in 4..12:
\* any non-empty set of at most n_views offsets (fewer than n_views when draws
\* collide)
OffsetSets(duration, low) ==
    {S \in SUBSET OffsetPool(duration, low) :
        S # {} /\ \E n_views \in MinViews..MaxViews : Cardinality(S) <= n_views}

\* sorted(set([0] + [the offsets] + [session_duration]))
TimeSlotsNoEnd(offsets, duration) == SortSet({0} \cup offsets)
TimeSlots(offsets, duration) == SortSet({0} \cup offsets \cup {duration})

\* time_slots[i] and time_slots[i + 1] - time_slots[i] of page i (from 0)
ViewOffset(slots, i) == slots[i + 1]
ViewDuration(slots, i) == slots[i + 2] - slots[i + 1]

\* index of pid in the cart (0 when pid not in cart_contents)
CartIndex(cart, pid) ==
    IF \E j \in 1..Len(cart) : cart[j].pid = pid
        THEN CHOOSE j \in 1..Len(cart) : cart[j].pid = pid
        ELSE 0

\* if pid not in cart_contents: cart_contents[pid] = {"quantity": 0, "price": ...}
CartWithEntry(cart, pid) ==
    IF CartIndex(cart, pid) = 0
        THEN Append(cart, [pid |-> pid, quantity |-> 0, price |-> base_price[pid]])
        ELSE cart

\* stock_left = inventory.get_product(pid)["current_stock"] - cart_contents[pid]["quantity"]
StockLeft(cart, pid) == current_stock[pid] - cart[CartIndex(cart, pid)].quantity

\* max_possible = min(3, stock_left)
MaxPossibleUncapped(cart, pid) == MaxAdd
MaxPossible(cart, pid) == Min(MaxAdd, StockLeft(cart, pid))

\* the carts the add-to-cart block can leave
CartAdds(cart, pid) ==
    LET c == CartWithEntry(cart, pid)
        j == CartIndex(c, pid)
        m == MaxPossible(c, pid)
    IN  IF m > 0
           THEN {[c EXCEPT ![j].quantity = @ + q] : q \in 1..m}
           ELSE {c}

\* {k: v for k, v in cart_contents.items() if v["quantity"] > 0}
EmittedCart(cart) == SelectSeq(cart, LAMBDA e : e.quantity > 0)

\* any(p["page_type"] in ["checkout", "confirmation"] for p in page_views)
ReachedCheckout(pages) ==
    \E j \in 1..Len(pages) : pages[j].page_type \in {"checkout", "confirmation"}

\* if cart_contents and any(...): the raw dict is tested, zero entries included
MayConvert(cart, pages) == cart # <<>> /\ ReachedCheckout(pages)

\* "converted" if converted else "abandoned" if cart_contents else "browsed"
ConversionStatus(conv, cart) ==
    IF conv THEN "converted" ELSE IF cart # <<>> THEN "abandoned" ELSE "browsed"

RECURSIVE SumSubtotals(_)
\* sum(i["subtotal"] for i in transaction_items)
SumSubtotals(items) ==
    IF items = <<>> THEN 0 ELSE items[1].subtotal + SumSubtotals(Tail(items))

\* round(x, 2) of x = n / 100 cents: the nearest cent; a tie falls on either
\* side, by the binary value of the float
RoundCents(n) ==
    LET q == n \div 100
        r == n % 100
    IN  IF r < 50 THEN {q} ELSE IF r > 50 THEN {q + 1} ELSE {q, q + 1}

\* discount = 0.0; if random.random() < 0.2:
\*     discount = round(subtotal * random.choice([0.05, 0.1, 0.15, 0.2]), 2)
Discounts(amount) ==
    {0} \cup UNION {RoundCents(amount * rate) : rate \in DiscountRates}

\* one transaction item
Item(pid, qty, price) ==
    [product_id |-> pid, quantity |-> qty, unit_price |-> price,
     subtotal |-> qty * price]

\* the record transactions.append builds. Its "subtotal", "discount" and "total"
\* are round(subtotal, 2), discount and total of the pricing block: the model
\* keeps them in those locals, which hold them until the iteration ends.
TransactionRecord(sid, uid, items) ==
    [session_id |-> sid, user_id |-> uid, items |-> items]

\* lines 365-370 and 404-409: subtotal, discount and total of the items
PricingNoRound(items) ==
    /\ subtotal' = SumSubtotals(items)
    /\ discount' \in {0} \cup {(SumSubtotals(items) * rate) \div 100 : rate \in DiscountRates}
    /\ total' = subtotal' - discount'
Pricing(items) ==
    /\ subtotal' = SumSubtotals(items)
    /\ discount' \in Discounts(SumSubtotals(items))
    /\ total' = subtotal' - discount'

\* a ceiling that counts the transaction target only
MaxIterationsTransactionsOnly == NUM_TRANSACTIONS * 3

\* MAX_ITERATIONS = (NUM_SESSIONS + NUM_TRANSACTIONS) * 3
MAX_ITERATIONS == (NUM_SESSIONS + NUM_TRANSACTIONS) * 3

\* random.sample(products, k=min(3, len(products))): sequences of distinct products
Samples ==
    LET n == Min(SampleSize, NumProducts)
    IN  {f \in [1..n -> Products] : \A a, b \in 1..n : a # b => f[a] # f[b]}

(***************************************************************************)
(* Session and transaction generation                                      *)
(***************************************************************************)

InitCatalog ==
    /\ base_price = [p \in Products |-> Prices[((p - 1) % Len(Prices)) + 1]]
    /\ is_active \in [Products -> BOOLEAN]

\* the values the model gives the locals of the loop body while they are dead
\* (no statement reads them before the next iteration assigns them)
LocalsCleared ==
    /\ user = None
    /\ session_id = None
    /\ session_duration = 0
    /\ time_slots = <<>>
    /\ page_views = <<>>
    /\ cart_contents = <<>>
    /\ converted = FALSE
    /\ transaction_items = <<>>
    /\ valid = TRUE
    /\ products_in_txn = <<>>
    /\ k = 0
    /\ subtotal = 0
    /\ discount = 0
    /\ total = 0

\* the same, as the effect of the step that ends an iteration
ClearLocals ==
    /\ user' = None
    /\ session_id' = None
    /\ session_duration' = 0
    /\ time_slots' = <<>>
    /\ page_views' = <<>>
    /\ cart_contents' = <<>>
    /\ converted' = FALSE
    /\ transaction_items' = <<>>
    /\ valid' = TRUE
    /\ products_in_txn' = <<>>
    /\ k' = 0
    /\ subtotal' = 0
    /\ discount' = 0
    /\ total' = 0

InitLoop ==
    /\ sessions = <<>>
    /\ transactions = <<>>
    /\ transaction_counter = 0
    /\ session_counter = 0
    /\ iteration = 0
    /\ pc = "loop"
    /\ LocalsCleared

\* while (session_counter < NUM_SESSIONS or transaction_counter < NUM_TRANSACTIONS)
\*       and iteration < MAX_ITERATIONS
LoopConditionUnbounded ==
    session_counter < NUM_SESSIONS \/ transaction_counter < NUM_TRANSACTIONS
LoopCondition ==
    /\ session_counter < NUM_SESSIONS \/ transaction_counter < NUM_TRANSACTIONS
    /\ iteration < MAX_ITERATIONS

\* the loop test succeeds: iteration += 1; if session_counter < NUM_SESSIONS
LoopEnter ==
    /\ pc = "loop"
    /\ LoopCondition
    /\ iteration' = iteration + 1
    /\ pc' = IF session_counter < NUM_SESSIONS THEN "session" ELSE "standalone"
    /\ UNCHANGED <<ledgerVars, historyVars, threadVars, catalogVars, outputVars,
                   sessionLocals, txnLocals, priceLocals,
                   producerVars, callVars>>

\* the loop test fails: the export follows
LoopExit ==
    /\ pc = "loop"
    /\ ~LoopCondition
    /\ pc' = "done"
    /\ UNCHANGED <<ledgerVars, historyVars, threadVars, catalogVars, outputVars, iteration,
                   sessionLocals, txnLocals, priceLocals,
                   producerVars, callVars>>

\* generate_session_id(): "sess_" and the first 10 hex digits of a uuid4, a
\* random value of 40 bits: an id that no session has yet (Len(sessions) + 1
\* stands for it) or the id of an earlier session
generate_session_id == 1..(Len(sessions) + 1)

\* lines 271-283: user, session id, duration and the page view timeline, the
\* duration drawn from `durations` and the offsets from 1..low and the largest
StartSession(durations, low) ==
    /\ pc = "session"
    /\ user' \in Users
    /\ session_id' \in generate_session_id
    /\ \E duration \in durations :
          /\ session_duration' = duration
          /\ \E offsets \in OffsetSets(duration, low) :
                time_slots' = TimeSlots(offsets, duration)
    /\ page_views' = <<>>
    /\ cart_contents' = <<>>
    /\ pc' = "pages"
    /\ UNCHANGED <<ledgerVars, historyVars, threadVars, catalogVars, outputVars, iteration,
                   converted, txnLocals, priceLocals,
                   producerVars, callVars>>

SessionStart == StartSession({MinDuration}, MaxOffsetLow)

\* a page view loop whose cart addition takes the added units from the ledger
ViewPageReserving(page_types) ==
    /\ pc = "pages"
    /\ Len(page_views) < Len(time_slots) - 1
    /\ LET i == Len(page_views)
       IN  \E page_type \in page_types :
           \E product \in get_page_content(page_type) :
              /\ \/ /\ page_type = "product_detail" /\ product # None
                    /\ \/ UNCHANGED <<cart_contents, current_stock>>
                       \/ \E cart \in CartAdds(cart_contents, product) :
                             /\ cart_contents' = cart
                             /\ current_stock' = [current_stock EXCEPT ![product] =
                                   @ - (cart[CartIndex(cart, product)].quantity
                                        - (IF CartIndex(cart_contents, product) = 0
                                              THEN 0
                                              ELSE cart_contents[CartIndex(cart_contents,
                                                       product)].quantity))]
                 \/ /\ ~(page_type = "product_detail" /\ product # None)
                    /\ UNCHANGED <<cart_contents, current_stock>>
              /\ page_views' = Append(page_views,
                    [offset |-> ViewOffset(time_slots, i),
                     page_type |-> page_type,
                     product_id |-> product,
                     view_duration |-> ViewDuration(time_slots, i)])
    /\ UNCHANGED <<initial_stock, historyVars, threadVars, catalogVars, outputVars, iteration, pc,
                   user, session_id, session_duration, time_slots, converted,
                   txnLocals, priceLocals, producerVars, callVars>>

\* one iteration of `for i in range(len(time_slots) - 1)`, the page type drawn
\* from page_types
ViewPage(page_types) ==
    /\ pc = "pages"
    /\ Len(page_views) < Len(time_slots) - 1
    /\ LET i == Len(page_views)
       IN  \E page_type \in page_types :
           \E product \in get_page_content(page_type) :
              /\ \/ /\ page_type = "product_detail" /\ product # None
                    /\ \/ UNCHANGED cart_contents          \* random.random() >= 0.3
                       \/ cart_contents' \in CartAdds(cart_contents, product)
                 \/ /\ ~(page_type = "product_detail" /\ product # None)
                    /\ UNCHANGED cart_contents
              /\ page_views' = Append(page_views,
                    [offset |-> ViewOffset(time_slots, i),
                     page_type |-> page_type,
                     product_id |-> product,
                     view_duration |-> ViewDuration(time_slots, i)])
    /\ UNCHANGED <<ledgerVars, historyVars, threadVars, catalogVars, outputVars, iteration, pc,
                   user, session_id, session_duration, time_slots, converted,
                   txnLocals, priceLocals,
                   producerVars, callVars>>

PageView == ViewPage(determine_page_type(Len(page_views), page_views))

\* the record sessions.append builds. Its "page_views" is the list the local
\* page_views names: no statement reads it after the append, and the model keeps
\* it in the local only, up to this step.
SessionRecord(conv) ==
    [session_id |-> session_id,
     user_id |-> user,
     duration_seconds |-> session_duration,
     cart_contents |-> EmittedCart(cart_contents),
     conversion_status |-> ConversionStatus(conv, cart_contents)]

\* lines 314-346: the conversion draw, sessions.append, session_counter += 1 and
\* the test `if converted and transaction_counter < NUM_TRANSACTIONS`
SessionEmit ==
    /\ pc = "pages"
    /\ Len(page_views) = Len(time_slots) - 1
    /\ converted' \in (IF MayConvert(cart_contents, page_views)
                          THEN BOOLEAN ELSE {FALSE})
    /\ sessions' = Append(sessions, SessionRecord(converted'))
    /\ session_counter' = session_counter + 1
    /\ time_slots' = <<>>
    /\ page_views' = <<>>
    /\ transaction_items' = <<>>
    /\ valid' = TRUE
    /\ k' = 1
    /\ pc' = IF converted' /\ transaction_counter < NUM_TRANSACTIONS
                THEN "linked" ELSE "standalone"
    /\ UNCHANGED <<ledgerVars, historyVars, threadVars, catalogVars, transactions,
                   transaction_counter, iteration, user, session_id,
                   session_duration, cart_contents, products_in_txn,
                   priceLocals,
                   producerVars, callVars>>

\* "unit_price": details["price"]
LinkedUnitPriceCatalog(entry) == base_price[entry.pid]
LinkedUnitPrice(entry) == entry.price

\* one iteration of `for pid, details in cart_contents.items()`
LinkedItem ==
    /\ pc = "linked"
    /\ valid
    /\ k <= Len(cart_contents)
    /\ LET pid == cart_contents[k].pid
           qty == cart_contents[k].quantity
       IN  IF qty > 0
              THEN IF CanReserve(pid, qty)
                      THEN /\ current_stock' = Decremented(pid, qty)
                           /\ reserved' = [reserved EXCEPT ![pid] = @ + qty]
                           /\ transaction_items' = Append(transaction_items,
                                 Item(pid, qty, LinkedUnitPrice(cart_contents[k])))
                           /\ k' = k + 1
                           /\ UNCHANGED valid
                      ELSE /\ valid' = FALSE
                           /\ UNCHANGED <<current_stock, reserved, transaction_items, k>>
              ELSE /\ k' = k + 1
                   /\ UNCHANGED <<current_stock, reserved, transaction_items, valid>>
    /\ UNCHANGED <<initial_stock, price_changes, threadVars, catalogVars, outputVars, iteration,
                   pc, sessionLocals, products_in_txn, priceLocals,
                   producerVars, callVars>>

\* lines 364-384: after the for loop, `if valid and transaction_items`
LinkedEmit ==
    /\ pc = "linked"
    /\ ~valid \/ k > Len(cart_contents)
    /\ IF valid /\ transaction_items # <<>>
          THEN /\ Pricing(transaction_items)
               /\ transactions' = Append(transactions,
                     TransactionRecord(session_id, user, transaction_items))
               /\ transaction_counter' = transaction_counter + 1
          ELSE UNCHANGED <<transactions, transaction_counter, priceLocals>>
    /\ pc' = "standalone"
    /\ UNCHANGED <<ledgerVars, historyVars, threadVars, catalogVars, sessions, session_counter,
                   iteration, sessionLocals, txnLocals,
                   producerVars, callVars>>

\* line 387 holds: user and the sampled products are drawn
StandaloneStart ==
    /\ pc = "standalone"
    /\ transaction_counter < NUM_TRANSACTIONS
    /\ user' \in Users
    /\ products_in_txn' \in Samples
    /\ transaction_items' = <<>>
    /\ k' = 1
    /\ pc' = "standalone_items"
    /\ UNCHANGED <<ledgerVars, historyVars, threadVars, catalogVars, outputVars, iteration,
                   session_id, session_duration, time_slots, page_views,
                   cart_contents, converted, valid, priceLocals,
                   producerVars, callVars>>

\* line 387 fails (the target is reached, or random.random() >= 0.2): the
\* iteration ends
StandaloneSkip ==
    /\ pc = "standalone"
    /\ pc' = "progress"
    /\ UNCHANGED <<ledgerVars, historyVars, threadVars, catalogVars, outputVars, iteration,
                   sessionLocals, txnLocals, priceLocals,
                   producerVars, callVars>>

\* the same with a failed reservation ending the for loop
StandaloneItemBreaks ==
    /\ pc = "standalone_items"
    /\ k <= Len(products_in_txn)
    /\ LET pid == products_in_txn[k]
       IN  IF is_active[pid]
              THEN \E qty \in 1..MaxAdd :
                      IF CanReserve(pid, qty)
                         THEN /\ current_stock' = Decremented(pid, qty)
                              /\ reserved' = [reserved EXCEPT ![pid] = @ + qty]
                              /\ transaction_items' = Append(transaction_items,
                                    Item(pid, qty, base_price[pid]))
                              /\ k' = k + 1
                         ELSE /\ k' = Len(products_in_txn) + 1
                              /\ UNCHANGED <<current_stock, reserved, transaction_items>>
              ELSE /\ k' = k + 1
                   /\ UNCHANGED <<current_stock, reserved, transaction_items>>
    /\ UNCHANGED <<initial_stock, price_changes, threadVars, catalogVars, outputVars, iteration,
                   pc, sessionLocals, valid, products_in_txn, priceLocals,
                   producerVars, callVars>>

\* one iteration of `for product in products_in_txn`
StandaloneItem ==
    /\ pc = "standalone_items"
    /\ k <= Len(products_in_txn)
    /\ LET pid == products_in_txn[k]
       IN  IF is_active[pid]
              THEN \E qty \in 1..MaxAdd :
                      IF CanReserve(pid, qty)
                         THEN /\ current_stock' = Decremented(pid, qty)
                              /\ reserved' = [reserved EXCEPT ![pid] = @ + qty]
                              /\ transaction_items' = Append(transaction_items,
                                    Item(pid, qty, base_price[pid]))
                         ELSE UNCHANGED <<current_stock, reserved, transaction_items>>
              ELSE UNCHANGED <<current_stock, reserved, transaction_items>>
    /\ k' = k + 1
    /\ UNCHANGED <<initial_stock, price_changes, threadVars, catalogVars, outputVars, iteration,
                   pc, sessionLocals, valid, products_in_txn, priceLocals,
                   producerVars, callVars>>

\* the same with `transaction_counter += 1` outside `if transaction_items`
StandaloneEmitCountsAll ==
    /\ pc = "standalone_items"
    /\ k > Len(products_in_txn)
    /\ IF transaction_items # <<>>
          THEN /\ Pricing(transaction_items)
               /\ transactions' = Append(transactions,
                     TransactionRecord(None, user, transaction_items))
          ELSE UNCHANGED <<transactions, priceLocals>>
    /\ transaction_counter' = transaction_counter + 1
    /\ pc' = "progress"
    /\ UNCHANGED <<ledgerVars, historyVars, threadVars, catalogVars, sessions, session_counter,
                   iteration, sessionLocals, txnLocals,
                   producerVars, callVars>>

\* lines 403-423: after the for loop, `if transaction_items`; the iteration ends
StandaloneEmit ==
    /\ pc = "standalone_items"
    /\ k > Len(products_in_txn)
    /\ IF transaction_items # <<>>
          THEN /\ Pricing(transaction_items)
               /\ transactions' = Append(transactions,
                     TransactionRecord(None, user, transaction_items))
               /\ transaction_counter' = transaction_counter + 1
          ELSE UNCHANGED <<transactions, transaction_counter, priceLocals>>
    /\ pc' = "progress"
    /\ UNCHANGED <<ledgerVars, historyVars, threadVars, catalogVars, sessions, session_counter,
                   iteration, sessionLocals, txnLocals,
                   producerVars, callVars>>

\* lines 425-431: the progress report ends the iteration. The locals of the body
\* are dead from here on, and the model clears them.
Progress ==
    /\ pc = "progress"
    /\ ClearLocals
    /\ pc' = "loop"
    /\ UNCHANGED <<ledgerVars, historyVars, threadVars, catalogVars, outputVars, iteration,
                   producerVars, callVars>>

Init ==
    /\ InitLedger
    /\ InitThreads
    /\ InitCatalog
    /\ NUM_SESSIONS \in 0..MaxSessions
    /\ NUM_TRANSACTIONS \in 0..MaxTransactions
    /\ InitLoop

Next ==
    \/ LoopEnter
    \/ LoopExit
    \/ SessionStart
    \/ PageView
    \/ SessionEmit
    \/ LinkedItem
    \/ LinkedEmit
    \/ StandaloneStart
    \/ StandaloneSkip
    \/ StandaloneItem
    \/ StandaloneEmit
    \/ Progress

Spec == Init /\ [][Next]_vars

(***************************************************************************)
(* Several threads calling update_stock on one InventoryManager: the       *)
(* generation loop does not run.                                           *)
(***************************************************************************)
InitLedgerSpec ==
    /\ InitLedger
    /\ InitThreads
    /\ base_price = [p \in Products |-> Prices[((p - 1) % Len(Prices)) + 1]]
    /\ is_active = [p \in Products |-> TRUE]
    /\ NUM_SESSIONS = 0
    /\ NUM_TRANSACTIONS = 0
    /\ InitLoop

NextLedger ==
    \E t \in Threads :
        \/ Call(t)
        \/ Acquire(t)
        \/ Check(t)
        \/ Decrement(t)
        \/ Release(t)

SpecLedger == InitLedgerSpec /\ [][NextLedger]_vars

(***************************************************************************)
(* The generation loop run for a single session and at most one            *)
(* transaction, from a catalog with more stock.                            *)
(***************************************************************************)
InitSession ==
    /\ current_stock \in [Products -> 0..MaxSessionStock]
    /\ initial_stock = current_stock
    /\ InitThreads
    /\ InitCatalog
    /\ NUM_SESSIONS = 1
    /\ NUM_TRANSACTIONS \in {0, 1}
    /\ InitLoop

SpecSession == InitSession /\ [][Next]_vars

(***************************************************************************)
(* The page view timeline alone: one session of any of the durations, its  *)
(* offsets drawn from a larger pool, every page a search page (a page type *)
(* determine_page_type can return at every position).                      *)
(***************************************************************************)
Durations == (MinDuration..(MinDuration + DurationSpread)) \cup {MaxDuration}

SearchOnly(position, previous_pages) ==
    determine_page_type(position, previous_pages) \cap {"search"}

TimelineStart == StartSession(Durations, MaxTimelineLow)

TimelineView == ViewPage(SearchOnly(Len(page_views), page_views))

InitTimeline ==
    /\ current_stock = [p \in Products |-> MaxStock]
    /\ initial_stock = current_stock
    /\ InitThreads
    /\ base_price = [p \in Products |-> Prices[((p - 1) % Len(Prices)) + 1]]
    /\ is_active = [p \in Products |-> TRUE]
    /\ NUM_SESSIONS = 1
    /\ NUM_TRANSACTIONS = 0
    /\ InitLoop

NextTimeline ==
    \/ LoopEnter
    \/ LoopExit
    \/ TimelineStart
    \/ TimelineView
    \/ SessionEmit
    \/ StandaloneSkip
    \/ Progress

SpecTimeline == InitTimeline /\ [][NextTimeline]_vars

(***************************************************************************)
(* The generation loop in an environment that changes catalog prices       *)
(* while a session is being built and turned into a transaction. The       *)
(* program itself never writes base_price after the catalog is built.      *)
(***************************************************************************)
ChangePrice ==
    /\ pc \in {"pages", "linked"}
    /\ price_changes < MaxPriceChanges
    /\ price_changes' = price_changes + 1
    /\ \E p \in Products : base_price' = [base_price EXCEPT ![p] = @ + 1]
    /\ UNCHANGED <<ledgerVars, reserved, threadVars, is_active, NUM_SESSIONS,
                   NUM_TRANSACTIONS, outputVars, iteration, pc, sessionLocals,
                   txnLocals, priceLocals,
                   producerVars, callVars>>

InitPrice ==
    /\ InitLedger
    /\ InitThreads
    /\ base_price = [p \in Products |-> Prices[((p - 1) % Len(Prices)) + 1]]
    /\ is_active = [p \in Products |-> TRUE]
    /\ NUM_SESSIONS = 1
    /\ NUM_TRANSACTIONS = 1
    /\ InitLoop

NextPrice == Next \/ ChangePrice

SpecPrice == InitPrice /\ [][NextPrice]_vars

(***************************************************************************)
(* Several producers running the session block and the linked transaction  *)
(* block of the loop body side by side on one InventoryManager, each with  *)
(* its own locals; every get_product and update_stock call is one step.    *)
(* Page views other than product pages, and the pricing of the emitted     *)
(* transaction, touch neither stock nor items and are left out.            *)
(***************************************************************************)

\* lines 296-304 for a product page of producer t: a cart addition
ProducerAdd(t) ==
    /\ p_pc[t] = "cart"
    /\ p_adds[t] < MaxProducerAdds
    /\ p_adds' = [p_adds EXCEPT ![t] = @ + 1]
    /\ \E pid \in Products :
          \E cart \in CartAdds(p_cart[t], pid) :
              p_cart' = [p_cart EXCEPT ![t] = cart]
    /\ UNCHANGED <<ledgerVars, historyVars, threadVars, driverVars, callVars, p_pc, p_items,
                   p_valid, p_k>>

\* lines 314-348 of producer t: the session converts and the linked block starts
ProducerConvert(t) ==
    /\ p_pc[t] = "cart"
    /\ p_cart[t] # <<>>
    /\ p_items' = [p_items EXCEPT ![t] = <<>>]
    /\ p_valid' = [p_valid EXCEPT ![t] = TRUE]
    /\ p_k' = [p_k EXCEPT ![t] = 1]
    /\ p_pc' = [p_pc EXCEPT ![t] = "linked"]
    /\ UNCHANGED <<ledgerVars, historyVars, threadVars, driverVars, callVars, p_cart, p_adds>>

\* the session of producer t does not convert: no linked transaction
ProducerLeave(t) ==
    /\ p_pc[t] = "cart"
    /\ p_pc' = [p_pc EXCEPT ![t] = "done"]
    /\ UNCHANGED <<ledgerVars, historyVars, threadVars, driverVars, callVars, p_cart, p_adds,
                   p_items, p_valid, p_k>>

\* one iteration of `for pid, details in cart_contents.items()` of producer t
ProducerItem(t) ==
    /\ p_pc[t] = "linked"
    /\ p_valid[t]
    /\ p_k[t] <= Len(p_cart[t])
    /\ LET pid == p_cart[t][p_k[t]].pid
           qty == p_cart[t][p_k[t]].quantity
       IN  IF qty > 0
              THEN IF CanReserve(pid, qty)
                      THEN /\ current_stock' = Decremented(pid, qty)
                           /\ reserved' = [reserved EXCEPT ![pid] = @ + qty]
                           /\ p_items' = [p_items EXCEPT ![t] = Append(@,
                                 Item(pid, qty, LinkedUnitPrice(p_cart[t][p_k[t]])))]
                           /\ p_k' = [p_k EXCEPT ![t] = @ + 1]
                           /\ UNCHANGED p_valid
                      ELSE /\ p_valid' = [p_valid EXCEPT ![t] = FALSE]
                           /\ UNCHANGED <<current_stock, reserved, p_items, p_k>>
              ELSE /\ p_k' = [p_k EXCEPT ![t] = @ + 1]
                   /\ UNCHANGED <<current_stock, reserved, p_items, p_valid>>
    /\ UNCHANGED <<initial_stock, price_changes, threadVars, driverVars, callVars, p_pc,
                   p_cart, p_adds>>

\* lines 364-384 of producer t: after the for loop, `if valid and transaction_items`
ProducerEmit(t) ==
    /\ p_pc[t] = "linked"
    /\ ~p_valid[t] \/ p_k[t] > Len(p_cart[t])
    /\ IF p_valid[t] /\ p_items[t] # <<>>
          THEN /\ transactions' = Append(transactions,
                     TransactionRecord(t, CHOOSE u \in Users : TRUE, p_items[t]))
               /\ transaction_counter' = transaction_counter + 1
          ELSE UNCHANGED <<transactions, transaction_counter>>
    /\ p_pc' = [p_pc EXCEPT ![t] = "done"]
    /\ UNCHANGED <<ledgerVars, historyVars, threadVars, catalogVars, sessions,
                   session_counter, iteration, pc, sessionLocals, txnLocals,
                   priceLocals, p_cart, p_adds, p_items, p_valid, p_k,
                   callVars>>

InitProducerSpec ==
    /\ InitLedger
    /\ InitThreads
    /\ base_price = [p \in Products |-> Prices[((p - 1) % Len(Prices)) + 1]]
    /\ is_active = [p \in Products |-> TRUE]
    /\ NUM_SESSIONS = NumProducers
    /\ NUM_TRANSACTIONS = NumProducers
    /\ InitLoop

NextProducers ==
    \E t \in Producers :
        \/ ProducerAdd(t)
        \/ ProducerConvert(t)
        \/ ProducerLeave(t)
        \/ ProducerItem(t)
        \/ ProducerEmit(t)

SpecProducers == InitProducerSpec /\ [][NextProducers]_vars

(***************************************************************************)
(* One session with a longer timeline, so that page sequences run up to    *)
(* the confirmation page and beyond; the catalog holds a single unit.      *)
(***************************************************************************)
PagesStart == StartSession({MinDuration}, MaxPagesLow)

InitPages ==
    /\ current_stock = [p \in Products |-> IF p = 1 THEN 1 ELSE 0]
    /\ initial_stock = current_stock
    /\ InitThreads
    /\ base_price = [p \in Products |-> Prices[((p - 1) % Len(Prices)) + 1]]
    /\ is_active = [p \in Products |-> TRUE]
    /\ NUM_SESSIONS = 1
    /\ NUM_TRANSACTIONS = 0
    /\ InitLoop

NextPagesSpec ==
    \/ LoopEnter
    \/ LoopExit
    \/ PagesStart
    \/ PageView
    \/ SessionEmit
    \/ StandaloneSkip
    \/ Progress

SpecPages == InitPages /\ [][NextPagesSpec]_vars

(***************************************************************************)
(* determine_page_type called on its own, with any position and any page   *)
(* history, of known page types and of one that the function does not know.*)
(***************************************************************************)
KnownPages == {"home", "category_listing", "search", "product_detail", "cart",
               "checkout", "confirmation"}

\* a page type that is none of the seven
UnknownPage == "wishlist"

RECURSIVE Histories(_)
\* the page histories of at most n pages (only "page_type" is read)
Histories(n) ==
    IF n = 0 THEN {<<>>}
    ELSE LET shorter == Histories(n - 1)
         IN  shorter \cup {Append(h, [page_type |-> t]) :
                              h \in shorter, t \in KnownPages \cup {UnknownPage}}

InitPageType ==
    /\ InitLedger
    /\ InitThreads
    /\ base_price = [p \in Products |-> Prices[((p - 1) % Len(Prices)) + 1]]
    /\ is_active = [p \in Products |-> TRUE]
    /\ NUM_SESSIONS = 0
    /\ NUM_TRANSACTIONS = 0
    /\ InitLoop

\* determine_page_type(position, previous_pages) is called
CallPageType ==
    /\ d_pc = "returned"
    /\ d_position' \in 0..MaxPosition
    /\ d_previous' \in Histories(MaxHistory)
    /\ d_pc' = "called"
    /\ UNCHANGED <<ledgerVars, historyVars, threadVars, driverVars, producerVars,
                   d_result>>

\* and returns
ReturnPageType ==
    /\ d_pc = "called"
    /\ d_result' \in determine_page_type(d_position, d_previous)
    /\ d_pc' = "returned"
    /\ UNCHANGED <<ledgerVars, historyVars, threadVars, driverVars, producerVars,
                   d_position, d_previous>>

NextPageType == CallPageType \/ ReturnPageType

SpecPageType == InitPageType /\ [][NextPageType]_vars

(***************************************************************************)
(* Properties of the InventoryManager under concurrent callers             *)
(* (SpecLedger).                                                           *)
(***************************************************************************)

\* C1: in every reachable state the current_stock of every product is >= 0,
\* whatever the interleaving of the update_stock calls of several threads.
C1_StockNeverNegative == \A p \in Products : current_stock[p] >= 0

\* a call has taken stock of a product and holds the lock while another thread
\* waits with a request for the same product that the stock left cannot serve
C1_ContendedProduct ==
    \E t1, t2 \in Threads :
        /\ t1 # t2
        /\ t_pc[t1] = "release" /\ t_ret[t1]
        /\ t_pc[t2] = "acquire"
        /\ t_pid[t1] \in Products /\ t_pid[t2] = t_pid[t1]
        /\ current_stock[t_pid[t1]] < t_qty[t2]

\* C2: a call of update_stock returns True and lowers the stock of its product
\* by exactly its quantity if and only if the product exists and its stock, as
\* the call found it, is at least the quantity; in every other case it returns
\* False and leaves the stock of every product as it found it.
C2_ReturnMatchesEffect ==
    \A t \in Threads :
        t_pc[t] = "release" =>
            LET pid == t_pid[t]
                qty == t_qty[t]
                ok  == pid \in Products /\ t_before[t][pid] >= qty
            IN  /\ t_ret[t] = ok
                /\ ok => current_stock = [t_before[t] EXCEPT ![pid] = @ - qty]
                /\ ~ok => current_stock = t_before[t]

\* one call is about to return False for a known product short of stock, and
\* another call has returned True
C2_BothOutcomes ==
    \E t1, t2 \in Threads :
        /\ t_pc[t1] = "release" /\ ~t_ret[t1]
        /\ t_pid[t1] \in Products
        /\ t_before[t1][t_pid[t1]] < t_qty[t1]
        /\ t_done[t2] >= 1 /\ t_ret[t2] /\ t_pc[t2] = "idle"

\* two threads have each made one call, both for product p and a quantity of 2,
\* p started with a stock of 2, and both calls have returned
TwoCallsForLastUnits(p, t1, t2) ==
    /\ t1 # t2
    /\ initial_stock[p] = 2
    /\ n_calls = 2
    /\ t_done[t1] = 1 /\ t_done[t2] = 1
    /\ t_pid[t1] = p /\ t_pid[t2] = p
    /\ t_qty[t1] = 2 /\ t_qty[t2] = 2

\* C3: update_stock is linearizable. When two threads each call
\* update_stock(p, 2) concurrently on a stock of 2, exactly one call returns
\* True, the other returns False, and the final stock is 0; and the quantities
\* of the successful reservations of a product never sum to more than its
\* initial stock (with all calls returned, they equal the stock consumed).
C3_Linearizable ==
    /\ \A p \in Products : reserved[p] <= initial_stock[p]
    /\ (\A t \in Threads : t_pc[t] = "idle") =>
          \A p \in Products : initial_stock[p] - current_stock[p] = reserved[p]
    /\ \A p \in Products : \A t1, t2 \in Threads :
          TwoCallsForLastUnits(p, t1, t2) =>
              /\ t_ret[t1] # t_ret[t2]
              /\ current_stock[p] = 0

\* the two calls for the last 2 units have both returned
C3_RaceDecided ==
    \E p \in Products : \E t1, t2 \in Threads : TwoCallsForLastUnits(p, t1, t2)

(***************************************************************************)
(* Properties of the generation loop.                                      *)
(***************************************************************************)

RECURSIVE QuantityIn(_, _)
\* the quantity of product p over the items of one transaction
QuantityIn(items, p) ==
    IF items = <<>> THEN 0
    ELSE (IF items[1].product_id = p THEN items[1].quantity ELSE 0)
         + QuantityIn(Tail(items), p)

RECURSIVE QuantitySold(_, _)
\* the quantity of product p over the items of all the transactions txns
QuantitySold(txns, p) ==
    IF txns = <<>> THEN 0
    ELSE QuantityIn(txns[1].items, p) + QuantitySold(Tail(txns), p)

\* C4: at every iteration boundary of the generation loop and at its end, for
\* every product, initial stock minus current stock equals the sum of the
\* quantities of that product over the items of all emitted transactions,
\* linked and standalone.
C4_StockConservation ==
    pc \in {"loop", "done"} =>
        \A p \in Products :
            initial_stock[p] - current_stock[p] = QuantitySold(transactions, p)

\* the loop has ended after emitting a linked and a standalone transaction
C4_BothKindsSold ==
    /\ pc = "done"
    /\ \E a, b \in 1..Len(transactions) :
          /\ transactions[a].session_id # None
          /\ transactions[b].session_id = None

\* C5: every emitted session whose conversion_status is "converted" has a
\* non-empty emitted cart_contents and at least one page view whose page_type
\* is checkout or confirmation. Stated on the step that appends the session.
C5_ConvertedHasCart ==
    [][Len(sessions') > Len(sessions) =>
          LET rec == sessions'[Len(sessions')]
          IN  rec.conversion_status = "converted" =>
                  /\ rec.cart_contents # <<>>
                  /\ ReachedCheckout(page_views)]_vars

\* the catalog started with every product in stock, and a session has been
\* emitted as "converted" with an empty cart_contents
C5_ConvertedEmptyCart ==
    /\ \A p \in Products : initial_stock[p] > 0
    /\ \E a \in 1..Len(sessions) :
          /\ sessions[a].conversion_status = "converted"
          /\ sessions[a].cart_contents = <<>>

\* the quantity of product pid in the cart (0 when it has no entry)
CartQuantity(cart, pid) ==
    IF CartIndex(cart, pid) = 0 THEN 0 ELSE cart[CartIndex(cart, pid)].quantity

\* C7: each cart addition adds between 1 and min(3, stock_left) units, where
\* stock_left is the ledger stock of the product minus the quantity already in
\* the cart, and adds nothing when that cap is <= 0; a cart entry never holds
\* more than the ledger stock of its product, and every entry of an emitted
\* session's cart_contents has a quantity >= 1 and at most that stock.
C7_CartBoundedByStock ==
    /\ [][\A p \in Products :
            LET before == CartQuantity(cart_contents, p)
                after == CartQuantity(cart_contents', p)
                stock_left == current_stock[p] - before
            IN  (pc = "pages" /\ pc' = "pages") =>
                    \/ after = before
                    \/ after - before \in 1..Min(MaxAdd, stock_left)]_vars
    /\ [](pc = "pages" =>
            \A j \in 1..Len(cart_contents) :
                cart_contents[j].quantity <= current_stock[cart_contents[j].pid])
    /\ [][Len(sessions') > Len(sessions) =>
            LET cart == sessions'[Len(sessions')].cart_contents
            IN  \A j \in 1..Len(cart) :
                    /\ cart[j].quantity >= 1
                    /\ cart[j].quantity <= current_stock[cart[j].pid]]_vars

\* a session has been emitted with a cart entry that two or more additions
\* filled up to the whole stock of a product that had more than MaxAdd units
C7_CartHoldsAllStock ==
    /\ sessions # <<>>
    /\ \E j \in 1..Len(sessions[1].cart_contents) :
          LET e == sessions[1].cart_contents[j]
          IN  e.quantity > MaxAdd /\ e.quantity = initial_stock[e.pid]

\* the transaction the step appends
Appended == transactions'[Len(transactions')]

\* item subtotals, the transaction subtotal and the total of the transaction
\* the step appends
PricingSums ==
    /\ \A j \in 1..Len(Appended.items) :
          Appended.items[j].subtotal
              = Appended.items[j].quantity * Appended.items[j].unit_price
    /\ subtotal' = SumSubtotals(Appended.items)
    /\ total' = subtotal' - discount'
    /\ discount' = 0 => total' = subtotal'

\* C8: for every emitted transaction, in integer cents: each item's subtotal is
\* quantity x unit_price, the subtotal is the sum of the items' subtotals, the
\* discount is 0 or the subtotal times one of 5%, 10%, 15%, 20% rounded to the
\* nearest cent, and the total is subtotal minus discount (the subtotal itself
\* when no discount is drawn).
C8_PricingRounded ==
    [][Len(transactions') > Len(transactions) =>
          /\ PricingSums
          /\ \/ discount' = 0
             \/ \E rate \in DiscountRates :
                   /\ 100 * discount' - subtotal' * rate <= 50
                   /\ subtotal' * rate - 100 * discount' <= 50]_vars

\* C8 as stated: the discount is 0 or exactly the subtotal times one of the
\* rates.
C8_PricingExact ==
    [][Len(transactions') > Len(transactions) =>
          /\ PricingSums
          /\ \/ discount' = 0
             \/ \E rate \in DiscountRates : 100 * discount' = subtotal' * rate]_vars

\* a transaction has just been emitted with a discount that is no exact
\* percentage of its subtotal
C8_RoundedDiscount ==
    /\ pc \in {"standalone", "progress"}
    /\ transactions # <<>>
    /\ subtotal = SumSubtotals(transactions[Len(transactions)].items)
    /\ discount > 0
    /\ \A rate \in DiscountRates : 100 * discount # subtotal * rate

RECURSIVE SumDurations(_)
\* sum of view_duration over the page views
SumDurations(pages) ==
    IF pages = <<>> THEN 0 ELSE pages[1].view_duration + SumDurations(Tail(pages))

\* C6: for every emitted session, of every duration and every draw of offsets,
\* colliding ones included, the page-view offsets are non-decreasing in page
\* order and the first is 0, every view_duration is >= 0, and the view
\* durations sum to the session's duration_seconds. Stated on the step that
\* appends the session, whose page_views the local page_views holds.
C6_TimelineSumsToDuration ==
    [][Len(sessions') > Len(sessions) =>
          /\ page_views # <<>>
          /\ page_views[1].offset = 0
          /\ \A j \in 1..Len(page_views) : page_views[j].view_duration >= 0
          /\ \A j \in 1..(Len(page_views) - 1) :
                page_views[j].offset <= page_views[j + 1].offset
          /\ SumDurations(page_views)
                = sessions'[Len(sessions')].duration_seconds]_vars

\* the timeline of a session of the longest duration is complete with fewer
\* page views than the fewest draws: offsets collided
C6_CollidedTimeline ==
    /\ pc = "pages"
    /\ session_duration = MaxDuration
    /\ Len(page_views) = Len(time_slots) - 1
    /\ Len(page_views) >= 2
    /\ Len(page_views) < MinViews

\* C9: a linked transaction, when emitted, has exactly one item per entry of
\* the originating session's emitted cart_contents, with the same product id
\* and quantity, and each item's unit_price is the price its cart entry
\* recorded when the entry was created (the catalog price of that moment, kept
\* by every later step), even if the catalog price changes between the cart
\* add and the transaction step.
C9_LinkedItemsMatchCart ==
    /\ [][(pc = "linked" /\ Len(transactions') > Len(transactions)) =>
            LET items == transactions'[Len(transactions')].items
                origin == sessions[Len(sessions)]
            IN  /\ transactions'[Len(transactions')].session_id = origin.session_id
                /\ Len(items) = Len(origin.cart_contents)
                /\ \A j \in 1..Len(items) :
                      /\ items[j].product_id = origin.cart_contents[j].pid
                      /\ items[j].quantity = origin.cart_contents[j].quantity
                      /\ items[j].unit_price = origin.cart_contents[j].price]_vars
    /\ [][(pc = "pages" /\ pc' = "pages") =>
            \A j \in 1..Len(cart_contents') :
                cart_contents'[j].price =
                    IF j <= Len(cart_contents)
                       THEN cart_contents[j].price
                       ELSE base_price[cart_contents'[j].pid]]_vars

\* a linked transaction has been emitted with an item whose unit_price is no
\* longer the catalog price of its product
C9_PriceMovedSinceAdd ==
    \E a \in 1..Len(transactions) :
        /\ transactions[a].session_id # None
        /\ \E j \in 1..Len(transactions[a].items) :
              transactions[a].items[j].unit_price
                  # base_price[transactions[a].items[j].product_id]

\* the steps an iteration of the generation loop is never longer than
IterationSteps == Min(SampleSize, NumProducts) + NumProducts + MaxViews + 10

\* the steps the current iteration has left at most, by the position in it
StepsLeft ==
    LET S == Min(SampleSize, NumProducts)
    IN  CASE pc = "loop" -> 0
          [] pc = "progress" -> 1
          [] pc = "standalone_items" -> 2 + (Len(products_in_txn) + 1 - k)
          [] pc = "standalone" -> S + 4
          [] pc = "linked" ->
                S + 5 + (Len(cart_contents) + 1 - k) + (IF valid THEN 1 ELSE 0)
          [] pc = "pages" ->
                S + NumProducts + 7 + (Len(time_slots) - 1 - Len(page_views))
          [] pc = "session" -> S + NumProducts + MaxViews + 9
          [] OTHER -> 0

\* a bound on the steps the generation loop has left
Measure ==
    IF pc = "done" THEN 0
    ELSE 1 + (MAX_ITERATIONS - iteration) * IterationSteps + StepsLeft

\* C10: the generation loop terminates after at most MAX_ITERATIONS =
\* 3 x (NUM_SESSIONS + NUM_TRANSACTIONS) iterations whatever the stock and the
\* draws: every step lowers Measure, which is never negative, and iteration
\* never exceeds MAX_ITERATIONS; when the loop has stopped, either both targets
\* are met or iteration equals MAX_ITERATIONS, and the loop stops by its test
\* failing, short of the targets or not.
C10_LoopTerminates ==
    /\ [][Measure' < Measure]_vars
    /\ [](Measure >= 0 /\ iteration <= MAX_ITERATIONS)
    /\ [](pc = "done" =>
            \/ /\ session_counter >= NUM_SESSIONS
               /\ transaction_counter >= NUM_TRANSACTIONS
            \/ iteration = MAX_ITERATIONS)
    /\ [][pc' = "done" => (pc = "loop" /\ ~LoopCondition)]_vars

\* the loop has stopped at the ceiling, short of the transaction target
C10_StoppedShort ==
    /\ pc = "done"
    /\ iteration = MAX_ITERATIONS
    /\ session_counter >= NUM_SESSIONS
    /\ transaction_counter < NUM_TRANSACTIONS

\* C11: in every reachable state session_counter is the number of emitted
\* sessions and is <= NUM_SESSIONS, and transaction_counter is the number of
\* emitted transactions and is <= NUM_TRANSACTIONS; transaction_counter grows
\* only by 1, together with the append of a transaction that has items (and,
\* for a linked one, was not aborted), so a discarded attempt leaves it alone.
C11_CountersExact ==
    /\ [](/\ session_counter = Len(sessions)
          /\ session_counter <= NUM_SESSIONS
          /\ transaction_counter = Len(transactions)
          /\ transaction_counter <= NUM_TRANSACTIONS)
    /\ [][transaction_counter' # transaction_counter =>
            /\ transaction_counter' = transaction_counter + 1
            /\ Len(transactions') = Len(transactions) + 1
            /\ transaction_items # <<>>
            /\ pc = "linked" => valid]_vars
    /\ [][((pc = "linked" /\ pc' # "linked") \/ (pc = "standalone_items" /\ pc' = "progress"))
            /\ (transaction_items = <<>> \/ ~valid)
            => (transaction_counter' = transaction_counter
                /\ transactions' = transactions)]_vars

\* a standalone attempt has just been discarded with zero items, every
\* reservation having failed, while the transaction target is not reached
C11_AttemptDiscarded ==
    /\ pc = "progress"
    /\ products_in_txn # <<>>
    /\ k > Len(products_in_txn)
    /\ transaction_items = <<>>
    /\ \E j \in 1..Len(products_in_txn) : is_active[products_in_txn[j]]
    /\ transaction_counter < NUM_TRANSACTIONS

\* C12: every emitted transaction has at least one item and every item a
\* quantity >= 1; an item is appended only by a step whose update_stock call
\* returned True for that product and quantity (the stock covered the quantity
\* and the call lowered the stock of that product by it), every such call
\* appends exactly one item, and the items emitted are the items so appended.
C12_ItemsAreReservations ==
    /\ [](\A a \in 1..Len(transactions) :
            /\ transactions[a].items # <<>>
            /\ \A j \in 1..Len(transactions[a].items) :
                  transactions[a].items[j].quantity >= 1)
    /\ [][(transaction_items' # transaction_items /\ transaction_items' # <<>>) =>
            LET it == transaction_items'[Len(transaction_items')]
            IN  /\ transaction_items' = Append(transaction_items, it)
                /\ it.quantity >= 1
                /\ it.product_id \in Products
                /\ current_stock[it.product_id] >= it.quantity
                /\ current_stock' = [current_stock EXCEPT
                                        ![it.product_id] = @ - it.quantity]]_vars
    /\ [][current_stock' # current_stock =>
            Len(transaction_items') = Len(transaction_items) + 1]_vars
    /\ [][Len(transactions') > Len(transactions) =>
            transactions'[Len(transactions')].items = transaction_items]_vars

\* a standalone attempt holds an item while the reservation of another active
\* sampled product has failed and left no item
C12_OneKeptOneFailed ==
    /\ pc = "standalone_items"
    /\ k > Len(products_in_txn)
    /\ transaction_items # <<>>
    /\ \A j \in 1..Len(products_in_txn) : is_active[products_in_txn[j]]
    /\ Len(transaction_items) < Len(products_in_txn)

\* C13: with two or more producers running the session step and the linked
\* transaction step interleaved on one InventoryManager, once all producers
\* are done, for every product the current stock plus the quantities of the
\* product over all emitted transaction items equals its initial stock.
C13_ConcurrentConservation ==
    (\A t \in Producers : p_pc[t] = "done") =>
        \A p \in Products :
            current_stock[p] + QuantitySold(transactions, p) = initial_stock[p]

\* all producers are done and one of them abandoned its linked transaction on
\* a failed reservation after reserving an earlier cart entry
C13_AbandonedAfterReserving ==
    /\ \A t \in Producers : p_pc[t] = "done"
    /\ \E t \in Producers : ~p_valid[t] /\ p_items[t] # <<>>

\* C14: every emitted session that is not converted has conversion_status
\* "abandoned" exactly when its emitted cart_contents is non-empty and
\* "browsed" exactly when it is empty, also after a cart addition for a product
\* whose stock_left was 0. Stated on the step that appends the session.
C14_StatusMatchesCart ==
    [][Len(sessions') > Len(sessions) =>
          LET rec == sessions'[Len(sessions')]
          IN  rec.conversion_status # "converted" =>
                  /\ rec.conversion_status \in {"abandoned", "browsed"}
                  /\ rec.conversion_status = "abandoned" <=> rec.cart_contents # <<>>
                  /\ rec.conversion_status = "browsed" <=> rec.cart_contents = <<>>]_vars

\* the catalog started with every product in stock, and a session has been
\* emitted as "abandoned" with an empty cart_contents
C14_AbandonedEmptyCart ==
    /\ \A p \in Products : initial_stock[p] > 0
    /\ \E a \in 1..Len(sessions) :
          /\ sessions[a].conversion_status = "abandoned"
          /\ sessions[a].cart_contents = <<>>

\* every transaction with a session_id refers to an emitted session of the
\* same user whose conversion_status is "converted"
LinkedRefersToConverted ==
    \A a \in 1..Len(transactions) :
        transactions[a].session_id # None =>
            \E b \in 1..Len(sessions) :
                /\ sessions[b].session_id = transactions[a].session_id
                /\ sessions[b].user_id = transactions[a].user_id
                /\ sessions[b].conversion_status = "converted"

\* a transaction appended by the linked block carries the session_id of the
\* session, one appended by the standalone block carries None
StandaloneHasNoSession ==
    [][Len(transactions') > Len(transactions) =>
          /\ pc = "linked" =>
                transactions'[Len(transactions')].session_id = session_id
          /\ pc = "standalone_items" =>
                transactions'[Len(transactions')].session_id = None]_vars

\* C15: no two emitted transactions carry the same non-null session_id, every
\* transaction with a non-null session_id refers to an already emitted session
\* of the same user whose conversion_status is "converted", and every
\* standalone transaction has session_id null.
C15_OneLinkedPerSession ==
    /\ [](\A a, b \in 1..Len(transactions) :
            (a # b /\ transactions[a].session_id # None) =>
                transactions[a].session_id # transactions[b].session_id)
    /\ []LinkedRefersToConverted
    /\ StandaloneHasNoSession

\* two sessions were given the same session_id, both converted, and each has
\* its linked transaction
C15_TwoLinkedShareId ==
    /\ Len(sessions) >= 2
    /\ sessions[1].session_id = sessions[2].session_id
    /\ Len(transactions) >= 2
    /\ transactions[1].session_id = sessions[1].session_id
    /\ transactions[2].session_id = sessions[1].session_id

\* the parts of C15 that do not rest on distinct ids
C15_RefersAndNull == []LinkedRefersToConverted /\ StandaloneHasNoSession

\* C16: a standalone transaction reserves each sampled product on its own: a
\* step of the loop over the sampled products moves on to the next product
\* whether or not its reservation succeeds, keeps the items reserved so far,
\* and adds at most an item for the product at hand, which is active, with a
\* quantity in 1..3; the transaction is emitted after every sampled product was
\* attempted, with the items so collected, which are for at most 3 pairwise
\* distinct products.
C16_StandaloneIndependent ==
    /\ [][(pc = "standalone_items" /\ pc' = "standalone_items") =>
            /\ k' = k + 1
            /\ \/ transaction_items' = transaction_items
               \/ \E qty \in 1..3 :
                     /\ is_active[products_in_txn[k]]
                     /\ transaction_items' = Append(transaction_items,
                           [product_id |-> products_in_txn[k], quantity |-> qty,
                            unit_price |-> base_price[products_in_txn[k]],
                            subtotal |-> qty * base_price[products_in_txn[k]]])]_vars
    /\ [][(pc = "standalone_items" /\ Len(transactions') > Len(transactions)) =>
            LET items == transactions'[Len(transactions')].items
            IN  /\ k = Len(products_in_txn) + 1
                /\ items = transaction_items
                /\ Len(items) <= 3
                /\ \A i, j \in 1..Len(items) :
                      i # j => items[i].product_id # items[j].product_id
                /\ \A j \in 1..Len(items) :
                      /\ is_active[items[j].product_id]
                      /\ items[j].quantity \in 1..3]_vars

\* a standalone transaction has been emitted with an item for the second
\* sampled product after the reservation of the first, an active one, failed
C16_LaterProductKept ==
    /\ pc = "progress"
    /\ Len(products_in_txn) >= 2
    /\ is_active[products_in_txn[1]]
    /\ Len(transaction_items) = 1
    /\ transaction_items[1].product_id = products_in_txn[2]
    /\ transactions # <<>>
    /\ transactions[Len(transactions)].items = transaction_items
    /\ transactions[Len(transactions)].session_id = None

\* C17: session synthesis never changes stock: every step of the session
\* block (session start, page views with page-content resolution, get_product
\* and cart additions, the session record) leaves the current_stock of every
\* product unchanged; current_stock changes only in steps of the linked and
\* standalone item loops, by an update_stock call that lowers one product by
\* the quantity of the item it adds.
C17_SessionLeavesStock ==
    /\ [][(pc \in {"loop", "session", "pages", "standalone", "progress", "done"}) =>
            current_stock' = current_stock]_vars
    /\ [][current_stock' # current_stock =>
            /\ pc \in {"linked", "standalone_items"}
            /\ transaction_items' # <<>>
            /\ LET it == transaction_items'[Len(transaction_items')]
               IN  current_stock' = [current_stock EXCEPT
                                        ![it.product_id] = @ - it.quantity]]_vars

\* the page views of a session are complete, its cart holds units of a
\* product, and the ledger is still as it was at the start
C17_CartFilledStockIntact ==
    /\ pc = "pages"
    /\ Len(page_views) = Len(time_slots) - 1
    /\ \E j \in 1..Len(cart_contents) : cart_contents[j].quantity > 0
    /\ current_stock = initial_stock
    /\ \E p \in Products : current_stock[p] > 0

\* the session of this iteration converted and its linked transaction did not
\* materialise: the target was already reached, the linked block collected no
\* item, or a reservation failed
NotMaterialised ==
    /\ pc = "standalone"
    /\ converted
    /\ transaction_items = <<>> \/ ~valid

\* emitted session records are never modified or removed, the record of a
\* session is in the output while its linked block runs, and a linked block
\* that does not materialise appends nothing
SessionRecordKept ==
    /\ [][/\ Len(sessions') >= Len(sessions)
          /\ \A a \in 1..Len(sessions) : sessions'[a] = sessions[a]]_vars
    /\ [](((pc = "linked") \/ NotMaterialised) =>
            /\ sessions # <<>>
            /\ sessions[Len(sessions)].session_id = session_id
            /\ sessions[Len(sessions)].conversion_status = "converted"
            /\ sessions[Len(sessions)].cart_contents = EmittedCart(cart_contents))
    /\ [][(pc = "linked" /\ pc' # "linked" /\ (transaction_items = <<>> \/ ~valid)) =>
            transactions' = transactions]_vars

\* C18: a session record is emitted before its linked transaction is attempted
\* and is never modified afterwards; when a converted session's linked
\* transaction does not materialise, the session stays in the output with
\* conversion_status "converted" and unchanged cart_contents, and no
\* transaction with its session_id is emitted.
C18_ConvertedSessionKept ==
    /\ SessionRecordKept
    /\ [](NotMaterialised =>
            \A a \in 1..Len(transactions) :
                transactions[a].session_id # sessions[Len(sessions)].session_id)

\* a converted session whose linked transaction did not materialise carries
\* the session_id of an earlier session, whose linked transaction was emitted
C18_EarlierLinkedSharesId ==
    /\ NotMaterialised
    /\ Len(sessions) >= 2
    /\ sessions[1].session_id = sessions[Len(sessions)].session_id
    /\ \E a \in 1..Len(transactions) :
          transactions[a].session_id = sessions[Len(sessions)].session_id

\* the pages home's distribution draws from
HomeDistribution == {"category_listing", "search", "product_detail"}

\* C19: determine_page_type(position, previous_pages) with position > 0
\* returns one of category_listing, search, product_detail when the history is
\* empty or its last page type is none of the seven known ones.
C19_UnknownDefaultsToHome ==
    (/\ d_pc = "returned"
     /\ d_position > 0
     /\ \/ d_previous = <<>>
        \/ d_previous[Len(d_previous)].page_type \notin KnownPages)
        => d_result \in HomeDistribution

\* a call with position > 0 and an unknown last page type has returned "home"
C19_UnknownReturnsHome ==
    /\ d_pc = "returned"
    /\ d_position > 0
    /\ d_previous # <<>>
    /\ d_previous[Len(d_previous)].page_type = UnknownPage
    /\ d_result = "home"

\* the part of C19 about an empty history
C19_EmptyHistory ==
    (d_pc = "returned" /\ d_position > 0 /\ d_previous = <<>>)
        => d_result \in HomeDistribution

\* the page types of a session, in order
PageTypes(pages) == [j \in 1..Len(pages) |-> pages[j].page_type]

\* every page of type page is immediately preceded by a page of one of befores
PrecededBy(types, page, befores) ==
    \A j \in 1..Len(types) :
        types[j] = page => (j > 1 /\ types[j - 1] \in befores)

\* product_detail, cart and checkout occur in that order
FunnelInOrder(types) ==
    \E a, b, c \in 1..Len(types) :
        /\ a < b /\ b < c
        /\ types[a] = "product_detail"
        /\ types[b] = "cart"
        /\ types[c] = "checkout"

\* C20: in every emitted session the first page is home, search or
\* category_listing, every checkout page directly follows a cart page, every
\* confirmation page directly follows a checkout page and every cart page
\* directly follows a product_detail or checkout page; a converted session
\* has at least 4 page views with product_detail, cart, checkout in order.
C20_PagesFollowTable ==
    [][Len(sessions') > Len(sessions) =>
        LET types == PageTypes(page_views)
            rec == sessions'[Len(sessions')]
        IN  /\ types # <<>>
            /\ types[1] \in {"home", "search", "category_listing"}
            /\ PrecededBy(types, "checkout", {"cart"})
            /\ PrecededBy(types, "confirmation", {"checkout"})
            /\ PrecededBy(types, "cart", {"product_detail", "checkout"})
            /\ rec.conversion_status = "converted" =>
                    (Len(types) >= 4 /\ FunnelInOrder(types))]_vars

\* all pages of a session are viewed, they went through product_detail, cart
\* and checkout to the confirmation, and the cart lets the session convert
C20_ThroughConfirmation ==
    /\ pc = "pages"
    /\ Len(page_views) = Len(time_slots) - 1
    /\ MayConvert(cart_contents, page_views)
    /\ EmittedCart(cart_contents) # <<>>
    /\ FunnelInOrder(PageTypes(page_views))
    /\ \E j \in 2..Len(page_views) :
          /\ page_views[j].page_type = "confirmation"
          /\ page_views[j - 1].page_type = "checkout"

\* while the linked block runs nothing has failed, and every cart entry still
\* to be reserved asks for no more than the product's current_stock
ReservationSucceeds ==
    pc = "linked" =>
        /\ valid
        /\ \A j \in k..Len(cart_contents) :
              cart_contents[j].quantity <= current_stock[cart_contents[j].pid]

\* a linked block that was entered emits its transaction
LinkedBlockEmits ==
    [][(pc = "linked" /\ pc' # "linked") =>
            /\ Len(transactions') = Len(transactions) + 1
            /\ transactions'[Len(transactions')].session_id = session_id]_vars

\* C21: in the sequential driver, when the linked-transaction step runs every
\* cart entry with quantity > 0 has quantity <= the product's current_stock,
\* so every update_stock call returns True and valid = False is unreachable;
\* a converted session lacks a transaction only when transaction_counter has
\* already reached NUM_TRANSACTIONS.
C21_LinkedAlwaysEmits ==
    /\ []ReservationSucceeds
    /\ LinkedBlockEmits

\* the part of C21 about the reservations of the linked block
C21_ReservationNeverFails == ReservationSucceeds

\* the catalog started with every product in stock, the last session is
\* converted, its linked block ran while transaction_counter was below
\* NUM_TRANSACTIONS, no reservation failed and no transaction was emitted
C21_ConvertedWithoutTransaction ==
    /\ \A p \in Products : initial_stock[p] > 0
    /\ pc = "standalone"
    /\ converted
    /\ valid
    /\ cart_contents # <<>>
    /\ transaction_items = <<>>
    /\ transaction_counter < NUM_TRANSACTIONS
    /\ sessions # <<>>
    /\ sessions[Len(sessions)].conversion_status = "converted"

\* C22: for all non-negative targets, when the generation loop has terminated
\* the number of emitted sessions equals NUM_SESSIONS, also when all stock is
\* exhausted and the iteration ceiling is hit; only the number of
\* transactions can be below its target.
C22_SessionTargetMet ==
    pc = "done" =>
        /\ Len(sessions) = NUM_SESSIONS
        /\ session_counter = NUM_SESSIONS
        /\ Len(transactions) <= NUM_TRANSACTIONS

\* the loop has stopped at the iteration ceiling with all stock exhausted and
\* the transaction target missed, and the sessions are all there
C22_CeilingHitStockExhausted ==
    /\ pc = "done"
    /\ iteration = MAX_ITERATIONS
    /\ NUM_SESSIONS > 0
    /\ \A p \in Products : initial_stock[p] > 0 /\ current_stock[p] = 0
    /\ Len(transactions) < NUM_TRANSACTIONS
    /\ Len(sessions) = NUM_SESSIONS

====
